---- MODULE Spec2Model ----
(***************************************************************************)
(* Model of the ReviewSum vocabulary managers, batch tensorizers, copy     *)
(* decoder and loss:                                                       *)
(*   code/seq2seqCopyAttr/vocab.py          Vocab (fixed + dynamic part)   *)
(*   code/memBasic/vocab.py                 Vocab, make_tensors            *)
(*   code/seq2seqCopyAttr/models_linear.py  decode_step, forward, loss     *)
(* A text is modelled by the list of tokens str.split() yields; an         *)
(* embedding row by the token it was created for.  A call that raises      *)
(* leaves the mutations made before the raise and stops the run (the       *)
(* sources catch no exception).                                            *)
(***************************************************************************)
EXTENDS Integers, Sequences, FiniteSets, TLC

\* ------------------------------------------------------------------ bounds
MaxCnt == 2          \* cap on a corpus word's frequency
sum_max_len == 2     \* args.sum_max_len

\* --------------------------------------------------------------- constants
PAD_IDX == 0
SOS_IDX == 1
EOS_IDX == 2
UNK_IDX == 3
PAD_TOKEN == "<PAD>"
SOS_TOKEN == "<SOS>"
EOS_TOKEN == "<EOS>"
UNK_TOKEN == "<UNK>"
ReservedCnt == 10000

Words == {"a", "b"}
\* users / products the corpus scan registers; a batch may also name others
UserIDs == {"u1"}
ProductIDs == {"p1"}

\* ------------------------------------------------------------ small helpers
Range(f) == {f[x] : x \in DOMAIN f}
Put(f, k, v) == [x \in (DOMAIN f) \cup {k} |-> IF x = k THEN v ELSE f[x]]
Pop(f, k) == [x \in (DOMAIN f) \ {k} |-> f[x]]
Min(a, b) == IF a <= b THEN a ELSE b
Take(s, n) == SubSeq(s, 1, Min(n, Len(s)))
Repeat(x, n) == [i \in 1..n |-> x]
SeqsUpTo(S, lo, hi) == UNION {[1..n -> S] : n \in lo..hi}

\* list.sort(key=..., reverse=True): stable, descending.  Result: the list of
\* the indices 1..Len(keys) in sorted order.
SortDesc(keys) ==
  LET n == Len(keys)
      rank(k) == Cardinality({j \in 1..n : keys[j] > keys[k] \/ (keys[j] = keys[k] /\ j < k)}) + 1
  IN  [p \in 1..n |-> CHOOSE k \in 1..n : rank(k) = p]

\* ----------------------------------------------------------------- inputs
Sentences == {<<"a">>, <<"b">>, <<"a", "b">>}
Example(r, s, u, p) == [reviewText |-> r, summary |-> s, userID |-> u, productID |-> p]
Examples ==
  { Example(<<"a", "b">>, <<"a">>, "u1", "p1"),
    Example(<<"b">>, <<"a">>, "u2", "p2"),
    Example(<<"b", "b">>, <<>>, "u2", "p1"),
    Example(<<"b", "a">>, <<"b", "a">>, "u1", "p1") }
Batches == SeqsUpTo(Examples, 1, 2)
\* args.word_min_cnt: ordinary thresholds and one above the reserved tokens' count
MinCnts == {1, 2, ReservedCnt + 1}

\* ------------------------------------------------------------------ state
VARIABLES
  \* seq2seqCopyAttr Vocab
  word_min_cnt, word2id, id2word, word2cnt, embed, word_num, fixed_num,
  user_num, user2id, id2user, product_num, product2id, id2product,
  \* the last call: its name, what it raised, its argument and what it returned
  op, err, batch, ret,
  \* word_num on entry of the last call
  old_word_num,
  \* memBasic Vocab
  m_word_min_cnt, m_word2id, m_id2word, m_word2cnt, m_embed, next_idx,
  \* EncoderDecoder: the batch it is given (extended source ids, mask, safe
  \* target ids, size of the extended vocabulary, inference flag), the loop
  \* of forward, and what the network computed in the last decode_step
  d_src, d_src_mask, d_trg_, vocab_size, test, pc, step_i, prev_idx, pre_output_vectors, net,
  \* myNLLLoss.forward: its arguments and its loop
  output, target, l_pc, l_pos, rst

vocabVars == <<word_min_cnt, word2id, id2word, word2cnt, embed, word_num, fixed_num>>
attrVars == <<user_num, user2id, id2user, product_num, product2id, id2product>>
callVars == <<op, err, batch, ret, old_word_num>>
memVars == <<m_word_min_cnt, m_word2id, m_id2word, m_word2cnt, m_embed, next_idx>>
decVars == <<d_src, d_src_mask, d_trg_, vocab_size, test, pc, step_i, prev_idx, pre_output_vectors, net>>
lossVars == <<output, target, l_pc, l_pos, rst>>
outsideVocab == <<memVars, decVars, lossVars>>
outsideMem == <<vocabVars, attrVars, old_word_num, decVars, lossVars>>
outsideDec == <<vocabVars, attrVars, memVars, lossVars, err, batch, old_word_num>>
outsideLoss == <<vocabVars, attrVars, memVars, decVars, op, err, batch, ret, old_word_num>>
vars == <<vocabVars, attrVars, callVars, memVars, decVars, lossVars>>

NoRet == [none |-> TRUE]
NoBatch == <<>>

\* The vocabulary fields as one value.
Self == [word2id |-> word2id, id2word |-> id2word, word2cnt |-> word2cnt, embed |-> embed,
         word_num |-> word_num, fixed_num |-> fixed_num, err |-> "none"]

\* ---------------------------------------------------- Vocab.__init__ (embed=None)
VocabInit(cnts) ==
  /\ word_min_cnt \in cnts
  /\ word2id = (PAD_TOKEN :> PAD_IDX) @@ (SOS_TOKEN :> SOS_IDX) @@ (EOS_TOKEN :> EOS_IDX) @@ (UNK_TOKEN :> UNK_IDX)
  /\ id2word = (PAD_IDX :> PAD_TOKEN) @@ (SOS_IDX :> SOS_TOKEN) @@ (EOS_IDX :> EOS_TOKEN) @@ (UNK_IDX :> UNK_TOKEN)
  /\ word2cnt = (PAD_TOKEN :> ReservedCnt) @@ (SOS_TOKEN :> ReservedCnt) @@ (EOS_TOKEN :> ReservedCnt) @@ (UNK_TOKEN :> ReservedCnt)
  /\ embed = <<PAD_TOKEN, SOS_TOKEN, EOS_TOKEN, UNK_TOKEN>>
  /\ word_num = 4
  /\ fixed_num = 4
  /\ user_num = 1
  /\ user2id = ("<UNK-USER>" :> 0)
  /\ id2user = (0 :> "<UNK-USER>")
  /\ product_num = 1
  /\ product2id = ("<UNK-PRODUCT>" :> 0)
  /\ id2product = (0 :> "<UNK-PRODUCT>")

\* ------------------------------------------------------- Vocab.add_sentence
\* add_sentence without line 54: a new word gets no embedding row.
RECURSIVE add_sentence_no_row(_, _)
add_sentence_no_row(s, sent) ==
  IF sent = <<>> \/ s.err # "none" THEN s
  ELSE LET w == Head(sent)
           s1 == IF w \notin DOMAIN s.word2id
                 THEN [s EXCEPT !.word2id = Put(@, w, s.word_num),
                                !.id2word = Put(@, s.word_num, w),
                                !.word2cnt = Put(@, w, 1),
                                !.word_num = @ + 1]
                 ELSE IF w \in DOMAIN s.word2cnt
                 THEN [s EXCEPT !.word2cnt[w] = @ + 1]
                 ELSE [s EXCEPT !.err = "KeyError"]
       IN  add_sentence_no_row(s1, Tail(sent))

RECURSIVE add_sentence_loop(_, _)
add_sentence_loop(s, sent) ==
  IF sent = <<>> \/ s.err # "none" THEN s
  ELSE LET w == Head(sent)
           s1 == IF w \notin DOMAIN s.word2id
                 THEN [s EXCEPT !.word2id = Put(@, w, s.word_num),
                                !.id2word = Put(@, s.word_num, w),
                                !.word2cnt = Put(@, w, 1),
                                !.embed = Append(@, w),
                                !.word_num = @ + 1]
                 ELSE IF w \in DOMAIN s.word2cnt
                 THEN [s EXCEPT !.word2cnt[w] = @ + 1]
                 ELSE [s EXCEPT !.err = "KeyError"]
       IN  add_sentence_loop(s1, Tail(sent))

add_sentence_result(s, sent) ==
  LET t == add_sentence_loop(s, sent)
  IN  IF t.err = "none" THEN [t EXCEPT !.fixed_num = t.word_num] ELSE t

\* Stores a vocabulary value into the seq2seqCopyAttr Vocab's fields.
SetVocab(t) ==
  /\ word2id' = t.word2id
  /\ id2word' = t.id2word
  /\ word2cnt' = t.word2cnt
  /\ embed' = t.embed
  /\ word_num' = t.word_num
  /\ fixed_num' = t.fixed_num
  /\ err' = t.err

\* The corpus scan stops counting a word at MaxCnt occurrences.
AddSentenceReturn(t) ==
  /\ \A w \in Words \cap DOMAIN t.word2cnt : t.word2cnt[w] <= MaxCnt
  /\ SetVocab(t)

add_sentence ==
  /\ err = "none"
  /\ \E sent \in Sentences : AddSentenceReturn(add_sentence_result(Self, sent))
  /\ op' = "add_sentence"
  /\ batch' = NoBatch
  /\ ret' = NoRet
  /\ old_word_num' = word_num
  /\ UNCHANGED <<word_min_cnt, attrVars, outsideVocab>>

\* ------------------------------------------------ Vocab.add_user / add_product
add_user ==
  /\ err = "none"
  /\ \E user \in UserIDs :
       IF user \notin DOMAIN user2id
       THEN /\ user2id' = Put(user2id, user, user_num)
            /\ id2user' = Put(id2user, user_num, user)
            /\ user_num' = user_num + 1
       ELSE UNCHANGED <<user2id, id2user, user_num>>
  /\ op' = "add_user"
  /\ batch' = NoBatch
  /\ ret' = NoRet
  /\ old_word_num' = word_num
  /\ UNCHANGED <<vocabVars, err, product_num, product2id, id2product, outsideVocab>>

add_product ==
  /\ err = "none"
  /\ \E product \in ProductIDs :
       IF product \notin DOMAIN product2id
       THEN /\ product2id' = Put(product2id, product, product_num)
            /\ id2product' = Put(id2product, product_num, product)
            /\ product_num' = product_num + 1
       ELSE UNCHANGED <<product2id, id2product, product_num>>
  /\ op' = "add_product"
  /\ batch' = NoBatch
  /\ ret' = NoRet
  /\ old_word_num' = word_num
  /\ UNCHANGED <<vocabVars, err, user_num, user2id, id2user, outsideVocab>>

\* -------------------------------------------------------------- Vocab.trim
\* The ids of range(word_num) whose word has frequency >= min_cnt, ascending.
RECURSIVE reserved_from(_, _, _)
reserved_from(s, i, min_cnt) ==
  IF i >= s.word_num THEN <<>>
  ELSE IF s.word2cnt[s.id2word[i]] >= min_cnt
       THEN <<i>> \o reserved_from(s, i + 1, min_cnt)
       ELSE reserved_from(s, i + 1, min_cnt)

\* The second loop of trim: word k of reserved_words gets id k - 1.
RECURSIVE renumber(_, _, _, _)
renumber(s, reserved_idx, k, acc) ==
  IF k > Len(reserved_idx) THEN acc
  ELSE LET w == s.id2word[reserved_idx[k]]
       IN  renumber(s, reserved_idx, k + 1,
                    [acc EXCEPT !.word2id = Put(@, w, k - 1),
                                !.id2word = Put(@, k - 1, w),
                                !.word2cnt = Put(@, w, s.word2cnt[w])])

trim_result(s, min_cnt) ==
  IF \E i \in 0..(s.word_num - 1) : i \notin DOMAIN s.id2word \/ s.id2word[i] \notin DOMAIN s.word2cnt
  THEN [s EXCEPT !.err = "KeyError"]
  ELSE LET reserved_idx == reserved_from(s, 0, min_cnt)
           cnt == Len(reserved_idx)
           m == renumber(s, reserved_idx, 1, [word2id |-> <<>>, id2word |-> <<>>, word2cnt |-> <<>>])
       IN  IF \E k \in 1..cnt : reserved_idx[k] >= Len(s.embed)
           THEN [s EXCEPT !.err = "IndexError"]
           ELSE LET new_embed == [k \in 1..cnt |-> s.embed[reserved_idx[k] + 1]]
                IN  IF Cardinality(DOMAIN m.word2id) = Cardinality(DOMAIN m.id2word)
                       /\ Cardinality(DOMAIN m.id2word) = Cardinality(DOMAIN m.word2cnt)
                       /\ Cardinality(DOMAIN m.word2cnt) = Len(new_embed)
                    THEN [s EXCEPT !.word2id = m.word2id, !.id2word = m.id2word,
                                   !.word2cnt = m.word2cnt, !.embed = new_embed,
                                   !.word_num = cnt, !.fixed_num = cnt]
                    ELSE [s EXCEPT !.word_num = cnt, !.fixed_num = cnt, !.err = "AssertionError"]

trim ==
  /\ err = "none"
  /\ SetVocab(trim_result(Self, word_min_cnt))
  /\ op' = "trim"
  /\ batch' = NoBatch
  /\ ret' = NoRet
  /\ old_word_num' = word_num
  /\ UNCHANGED <<word_min_cnt, attrVars, outsideVocab>>

\* ------------------------------------------------- Vocab.word_id / id_word
word_id(s, w) == IF w \in DOMAIN s.word2id THEN s.word2id[w] ELSE UNK_IDX

\* -------------------------------------------------------- Vocab.read_batch
\* Lines 116-120: drop the previous batch's dynamic part.
RECURSIVE reset_loop(_, _, _)
reset_loop(s, i, hi) ==
  IF i >= hi \/ s.err # "none" THEN s
  ELSE IF ~(0 <= i /\ i < s.word_num) THEN [s EXCEPT !.err = "AssertionError"]
  ELSE IF i \notin DOMAIN s.id2word THEN [s EXCEPT !.err = "KeyError"]
  ELSE LET w == s.id2word[i]
           s1 == [s EXCEPT !.id2word = Pop(@, i)]
       IN  IF w \notin DOMAIN s1.word2id THEN [s1 EXCEPT !.err = "KeyError"]
           ELSE reset_loop([s1 EXCEPT !.word2id = Pop(@, w)], i + 1, hi)

\* read_batch without lines 116-120: the previous dynamic part is kept.
reset_dynamic_skipped(s) == s

reset_dynamic(s) ==
  LET t == reset_loop(s, s.fixed_num, s.word_num)
  IN  IF t.err = "none" THEN [t EXCEPT !.word_num = t.fixed_num] ELSE t

\* Lines 123-130: the batch's rows, longest review first.
sort_idx(b) == SortDesc([k \in 1..Len(b) |-> Len(b[k].reviewText)])

\* Lines 133-139: the batch's dynamic part, from the tokens of the sorted reviews.
RECURSIVE add_dynamic(_, _)
add_dynamic(s, toks) ==
  IF toks = <<>> THEN s
  ELSE LET w == Head(toks)
       IN  add_dynamic(IF w \notin DOMAIN s.word2id
                       THEN [s EXCEPT !.word2id = Put(@, w, s.word_num),
                                      !.id2word = Put(@, s.word_num, w),
                                      !.word_num = @ + 1]
                       ELSE s,
                       Tail(toks))

RECURSIVE Flatten(_)
Flatten(ss) == IF ss = <<>> THEN <<>> ELSE Head(ss) \o Flatten(Tail(ss))

\* Line 153 / 167: the ids the embedding layer is given.
embed_ids(s, row) == [k \in 1..Len(row) |-> IF row[k] < s.fixed_num THEN row[k] ELSE UNK_IDX]

\* Lines 161-164: the extended id of target token w of an example whose source row is src_row.
trg_id(s, w, src_row) ==
  LET cur_id == word_id(s, w)
  IN  IF cur_id >= s.fixed_num /\ cur_id \notin Range(src_row) THEN UNK_IDX ELSE cur_id

\* Lines 170-180: registry ids of the batch's users / products, 0 when unseen.
attr_ids(reg, names) == [k \in 1..Len(names) |-> IF names[k] \in DOMAIN reg THEN reg[names[k]] ELSE 0]

\* Lines 146-155: the extended source ids, right-padded to the longest review.
src_row(s, review, src_max_len) ==
  [j \in 1..Len(review) |-> word_id(s, review[j])] \o Repeat(PAD_IDX, src_max_len - Len(review))

\* Lines 156-166: the extended target ids, right-padded to sum_max_len.
trg_row(s, summary, src_row_k, trg_max_len) ==
  [j \in 1..Len(summary) |-> trg_id(s, summary[j], src_row_k)] \o Repeat(PAD_IDX, trg_max_len - Len(summary))

read_batch_ret(s, b, src_text, trg_text, src, trg, u2id, p2id) ==
  LET n == Len(b)
      src_max_len == Len(src_text[1])
  IN  [src |-> src,
       trg |-> trg,
       src_embed |-> [k \in 1..n |-> embed_ids(s, src[k])],
       trg_embed |-> [k \in 1..n |-> embed_ids(s, trg[k])],
       src_user |-> attr_ids(u2id, [k \in 1..n |-> b[k].userID]),
       src_product |-> attr_ids(p2id, [k \in 1..n |-> b[k].productID]),
       src_mask |-> [k \in 1..n |-> Repeat(1, Len(Take(src_text[k], src_max_len)))
                                     \o Repeat(0, src_max_len - Len(Take(src_text[k], src_max_len)))],
       src_lens |-> [k \in 1..n |-> Len(Take(src_text[k], src_max_len))],
       trg_lens |-> [k \in 1..n |-> Len(Take(trg_text[k] \o <<EOS_TOKEN>>, sum_max_len))],
       src_text |-> src_text,
       trg_text |-> trg_text]

\* Lines 156-168, given the source rows.
read_batch_trg(s, b, src_text, trg_text, src, u2id, p2id) ==
  read_batch_ret(s, b, src_text, trg_text, src,
                 [k \in 1..Len(b) |-> trg_row(s, Take(trg_text[k] \o <<EOS_TOKEN>>, sum_max_len), src[k], sum_max_len)],
                 u2id, p2id)

\* Lines 142-190, given the vocabulary with the batch's dynamic part.
read_batch_tensors(s, b, src_text, trg_text, u2id, p2id) ==
  [self |-> s,
   ret |-> read_batch_trg(s, b, src_text, trg_text,
                          [k \in 1..Len(b) |-> src_row(s, Take(src_text[k], Len(src_text[1])), Len(src_text[1]))],
                          u2id, p2id)]

\* Lines 133-139 written as a corpus scan: the batch's tokens go through add_sentence.
read_batch_scanned(s1, b, src_text, trg_text, u2id, p2id) ==
  IF s1.err # "none" THEN [self |-> s1, ret |-> NoRet]
  ELSE read_batch_tensors(add_sentence_loop(s1, Flatten(src_text)), b, src_text, trg_text, u2id, p2id)

\* Lines 123-190, given the vocabulary after the reset and the sorted row order.
read_batch_sorted(s1, b, src_text, trg_text, u2id, p2id) ==
  IF s1.err # "none" THEN [self |-> s1, ret |-> NoRet]
  ELSE read_batch_tensors(add_dynamic(s1, Flatten(src_text)), b, src_text, trg_text, u2id, p2id)

sorted_by(b, idx, field) == [k \in 1..Len(b) |-> b[idx[k]][field]]

read_batch_order(s1, b, idx, u2id, p2id) ==
  read_batch_sorted(s1, b, sorted_by(b, idx, "reviewText"), sorted_by(b, idx, "summary"), u2id, p2id)

read_batch_result(s0, b, u2id, p2id) ==
  read_batch_order(reset_dynamic(s0), b, sort_idx(b), u2id, p2id)

ReadBatchReturn(r, b) ==
  /\ SetVocab(r.self)
  /\ ret' = r.ret
  /\ batch' = b

read_batch ==
  /\ err = "none"
  /\ \E b \in Batches : ReadBatchReturn(read_batch_result(Self, b, user2id, product2id), b)
  /\ op' = "read_batch"
  /\ old_word_num' = word_num
  /\ UNCHANGED <<word_min_cnt, attrVars, outsideVocab>>

\* ====================================================== memBasic Vocab
MemSelf == [word2id |-> m_word2id, id2word |-> m_id2word, word2cnt |-> m_word2cnt,
            embed |-> m_embed, next_idx |-> next_idx, err |-> "none"]

\* Vocab.__init__ (embed=None)
MemInit(cnts) ==
  /\ m_word_min_cnt \in cnts
  /\ m_word2id = (PAD_TOKEN :> PAD_IDX) @@ (SOS_TOKEN :> SOS_IDX) @@ (EOS_TOKEN :> EOS_IDX) @@ (UNK_TOKEN :> UNK_IDX)
  /\ m_id2word = (PAD_IDX :> PAD_TOKEN) @@ (SOS_IDX :> SOS_TOKEN) @@ (EOS_IDX :> EOS_TOKEN) @@ (UNK_IDX :> UNK_TOKEN)
  /\ m_word2cnt = (PAD_TOKEN :> ReservedCnt) @@ (SOS_TOKEN :> ReservedCnt) @@ (EOS_TOKEN :> ReservedCnt) @@ (UNK_TOKEN :> ReservedCnt)
  /\ m_embed = <<PAD_TOKEN, SOS_TOKEN, EOS_TOKEN, UNK_TOKEN>>
  /\ next_idx = 4

SetMem(t) ==
  /\ m_word2id' = t.word2id
  /\ m_id2word' = t.id2word
  /\ m_word2cnt' = t.word2cnt
  /\ m_embed' = t.embed
  /\ next_idx' = t.next_idx
  /\ err' = t.err

\* ------------------------------------------------------- Vocab.add_sentence
RECURSIVE mem_add_sentence_loop(_, _)
mem_add_sentence_loop(s, sent) ==
  IF sent = <<>> \/ s.err # "none" THEN s
  ELSE LET w == Head(sent)
           s1 == IF w \notin DOMAIN s.word2id
                 THEN [s EXCEPT !.word2id = Put(@, w, s.next_idx),
                                !.id2word = Put(@, s.next_idx, w),
                                !.word2cnt = Put(@, w, 1),
                                !.embed = Append(@, w),
                                !.next_idx = @ + 1]
                 ELSE IF w \in DOMAIN s.word2cnt
                 THEN [s EXCEPT !.word2cnt[w] = @ + 1]
                 ELSE [s EXCEPT !.err = "KeyError"]
       IN  mem_add_sentence_loop(s1, Tail(sent))

\* The corpus scan stops counting a word at MaxCnt occurrences.
MemAddSentenceReturn(t) ==
  /\ \A w \in Words \cap DOMAIN t.word2cnt : t.word2cnt[w] <= MaxCnt
  /\ SetMem(t)

mem_add_sentence ==
  /\ err = "none"
  /\ \E sent \in Sentences : MemAddSentenceReturn(mem_add_sentence_loop(MemSelf, sent))
  /\ op' = "add_sentence"
  /\ batch' = NoBatch
  /\ ret' = NoRet
  /\ UNCHANGED <<m_word_min_cnt, outsideMem>>

\* -------------------------------------------------------------- Vocab.trim
RECURSIVE mem_reserved_from(_, _, _)
mem_reserved_from(s, i, min_cnt) ==
  IF i >= s.next_idx THEN <<>>
  ELSE IF s.word2cnt[s.id2word[i]] >= min_cnt
       THEN <<i>> \o mem_reserved_from(s, i + 1, min_cnt)
       ELSE mem_reserved_from(s, i + 1, min_cnt)

mem_trim_result(s, min_cnt) ==
  IF \E i \in 0..(s.next_idx - 1) : i \notin DOMAIN s.id2word \/ s.id2word[i] \notin DOMAIN s.word2cnt
  THEN [s EXCEPT !.err = "KeyError"]
  ELSE LET reserved_idx == mem_reserved_from(s, 0, min_cnt)
           cnt == Len(reserved_idx)
           m == renumber(s, reserved_idx, 1, [word2id |-> <<>>, id2word |-> <<>>, word2cnt |-> <<>>])
       IN  IF \E k \in 1..cnt : reserved_idx[k] >= Len(s.embed)
           THEN [s EXCEPT !.err = "IndexError"]
           ELSE LET new_embed == [k \in 1..cnt |-> s.embed[reserved_idx[k] + 1]]
                IN  IF Cardinality(DOMAIN m.word2id) = Cardinality(DOMAIN m.id2word)
                       /\ Cardinality(DOMAIN m.id2word) = Cardinality(DOMAIN m.word2cnt)
                       /\ Cardinality(DOMAIN m.word2cnt) = Len(new_embed)
                    THEN [s EXCEPT !.word2id = m.word2id, !.id2word = m.id2word,
                                   !.word2cnt = m.word2cnt, !.embed = new_embed]
                    ELSE [s EXCEPT !.err = "AssertionError"]

mem_trim ==
  /\ err = "none"
  /\ SetMem(mem_trim_result(MemSelf, m_word_min_cnt))
  /\ op' = "trim"
  /\ batch' = NoBatch
  /\ ret' = NoRet
  /\ UNCHANGED <<m_word_min_cnt, outsideMem>>

\* ------------------------------------------------------ Vocab.make_tensors
mem_size == 2          \* args.mem_size
review_max_len == 2    \* args.review_max_len

\* train_data: the training examples the memory entries point into.
TrainExample(u, p, r, s) == [userID |-> u, productID |-> p, reviewText |-> r, summary |-> s]
train_data ==
  << TrainExample("u1", "p1", <<"a", "b">>, <<"a">>),
     TrainExample("u1", "p2", <<"b">>, <<"b">>),
     TrainExample("u2", "p1", <<"a">>, <<>>),
     TrainExample("u2", "p2", <<"b", "b", "a">>, <<"a", "b", "a">>) >>

\* A memory entry is a tuple (index into train_data, relevance score, gold label).
MemExample(u, p, r, s, pr, ur) ==
  [userID |-> u, productID |-> p, reviewText |-> r, summary |-> s, product_review |-> pr, user_review |-> ur]
MemExamples ==
  { MemExample("u1", "p1", <<"a", "b">>, <<"a">>, << <<2, 1, 0>>, <<0, 3, 1>> >>, << <<1, 2, 1>> >>),
    MemExample("u2", "p2", <<"b">>, <<>>, <<>>, << <<2, 2, 1>> >>),
    MemExample("u1", "p1", <<"b">>, <<"b">>, << <<3, 1, 1>>, <<0, 2, 0>> >>, << <<1, 2, 1>> >>),
    MemExample("u2", "p2", <<"b", "a">>, <<"a", "b">>, << <<0, 3, 1>> >>, <<>>),
    MemExample("u1", "p2", <<"a">>, <<"a">>, <<>>, <<>>) }
MemBatches == SeqsUpTo(MemExamples, 1, 2)

mem_word_id(s, w) == IF w \in DOMAIN s.word2id THEN s.word2id[w] ELSE UNK_IDX

\* [word_id(w) for w in toks] + [PAD_IDX] * (n - len(toks))
mem_ids(s, toks, n) == [j \in 1..Len(toks) |-> mem_word_id(s, toks[j])] \o Repeat(PAD_IDX, n - Len(toks))

\* Python's p[0], p[2] and p[-2] of a tuple p.
piece_index(p) == p[1]
piece_gold(p) == p[3]
piece_score(p) == p[Len(p) - 1]

\* Line 119 without line 120: the memory is sorted and not cut to mem_size.
mem_kept_uncut(ex) ==
  LET mem == ex.product_review \o ex.user_review
      order == SortDesc([k \in 1..Len(mem) |-> piece_score(mem[k])])
  IN  [k \in 1..Len(mem) |-> mem[order[k]]]

\* Lines 118-120: the example's memory, best score first, cut to mem_size.
mem_kept(ex) ==
  LET mem == ex.product_review \o ex.user_review
      order == SortDesc([k \in 1..Len(mem) |-> piece_score(mem[k])])
  IN  Take([k \in 1..Len(mem) |-> mem[order[k]]], mem_size)

\* Line 124 left out: nothing is asserted.
mem_owned_unchecked(mem_piece, ex) == TRUE

\* Line 124: the assertion on a memory entry of example ex.
mem_owned(mem_piece, ex) ==
  LET mem_data == train_data[piece_index(mem_piece) + 1]
  IN  mem_data.userID = ex.userID \/ mem_data.productID = ex.productID

\* Lines 122-134: the row of one memory entry.
mem_row(s, mem_piece, ex) ==
  LET mem_data == train_data[piece_index(mem_piece) + 1]
  IN  [gold |-> piece_gold(mem_piece),
       up |-> <<IF mem_data.userID = ex.userID THEN 1 ELSE 0, IF mem_data.productID = ex.productID THEN 1 ELSE 0>>,
       review |-> mem_ids(s, Take(mem_data.reviewText, review_max_len), review_max_len),
       sum |-> mem_ids(s, Take(mem_data.summary, sum_max_len), sum_max_len)]

\* Lines 135-139: the row that fills a missing memory slot.
mem_blank == [gold |-> 0, up |-> <<0, 0>>, review |-> Repeat(PAD_IDX, review_max_len), sum |-> Repeat(PAD_IDX, sum_max_len)]

\* Lines 121-139 for one example, given its cut memory.
mem_rows_of(s, ex, mem) ==
  [k \in 1..Len(mem) |-> mem_row(s, mem[k], ex)] \o Repeat(mem_blank, mem_size - Len(mem))

mem_rows(s, ex) == mem_rows_of(s, ex, mem_kept(ex))

make_tensors_ret(s, b, idx, rows) ==
  LET n == Len(b)
      src_text == [k \in 1..n |-> b[idx[k]].reviewText]
      trg_text == [k \in 1..n |-> b[idx[k]].summary]
      src_max_len == Len(src_text[1])
  IN  [src |-> [k \in 1..n |-> mem_ids(s, Take(src_text[k], src_max_len), src_max_len)],
       trg |-> [k \in 1..n |-> mem_ids(s, Take(trg_text[k] \o <<EOS_TOKEN>>, sum_max_len), sum_max_len)],
       mem_up |-> [k \in 1..Len(rows) |-> rows[k].up],
       mem_review |-> [k \in 1..Len(rows) |-> rows[k].review],
       mem_sum |-> [k \in 1..Len(rows) |-> rows[k].sum],
       mem_gold |-> [k \in 1..Len(rows) |-> rows[k].gold],
       src_text |-> src_text,
       trg_text |-> trg_text]

make_tensors_sorted(s, b, idx) ==
  IF \E k \in 1..Len(b) : \E j \in 1..Len(mem_kept(b[idx[k]])) : ~mem_owned(mem_kept(b[idx[k]])[j], b[idx[k]])
  THEN [err |-> "AssertionError", ret |-> NoRet]
  ELSE [err |-> "none",
        ret |-> make_tensors_ret(s, b, idx, Flatten([k \in 1..Len(b) |-> mem_rows(s, b[idx[k]])]))]

make_tensors_result(s, b) == make_tensors_sorted(s, b, sort_idx(b))

MakeTensorsReturn(r, b) ==
  /\ err' = r.err
  /\ ret' = r.ret
  /\ batch' = b

make_tensors ==
  /\ err = "none"
  /\ \E b \in MemBatches : MakeTensorsReturn(make_tensors_result(MemSelf, b), b)
  /\ op' = "make_tensors"
  /\ UNCHANGED <<memVars, outsideMem>>

\* ======================================================= EncoderDecoder
embed_num == 4       \* args.embed_num: rows of the embedding table
ProbUnit == 2        \* a probability p is the integer p * ProbUnit
GateUnit == 2        \* the gate gen_p is the integer gen_p * GateUnit

\* The weight vectors of length n over 0..ProbUnit that sum to ProbUnit.
RECURSIVE SumSeq(_)
SumSeq(q) == IF q = <<>> THEN 0 ELSE Head(q) + SumSeq(Tail(q))
Dists(n) == {q \in [1..n -> 0..ProbUnit] : SumSeq(q) = ProbUnit}

\* Attention.forward, lines 170-175: a softmax over the scores, the masked
\* positions filled with -inf first; the scores are any the layers produce.
attn_probs_of(mask) == {q \in Dists(Len(mask)) : \A k \in 1..Len(mask) : mask[k] = 0 => q[k] = 0}

\* Line 68: a softmax over the embed_num logits of the generator.
gen_probs == Dists(embed_num)

\* Line 78: the sigmoid of the gate layer.
gen_ps == 0..GateUnit

\* Tensor.scatter_add(2, src, attn_probs) on acc, from source position k on.
\* acc[id + 1] is the entry of id.
RECURSIVE scatter_add(_, _, _, _)
scatter_add(acc, srow, attn_probs, k) ==
  IF k > Len(srow) THEN acc
  ELSE scatter_add([acc EXCEPT ![srow[k] + 1] = @ + attn_probs[k]], srow, attn_probs, k + 1)

\* Tensor.scatter in place of scatter_add: a later position overwrites.
RECURSIVE scatter_only(_, _, _, _)
scatter_only(acc, srow, attn_probs, k) ==
  IF k > Len(srow) THEN acc
  ELSE scatter_only([acc EXCEPT ![srow[k] + 1] = attn_probs[k]], srow, attn_probs, k + 1)

\* Lines 68-72: the generation distribution over the extended vocabulary.
gen_prob_of(gen, vsize) == IF vsize > Len(gen) THEN gen \o Repeat(0, vsize - Len(gen)) ELSE gen

\* Lines 75-76 with Tensor.scatter in place of Tensor.scatter_add.
copy_prob_scatter(srow, attn_probs, vsize) == scatter_only(Repeat(0, vsize), srow, attn_probs, 1)

\* Lines 75-76: the copy distribution over the extended vocabulary.
copy_prob_of(srow, attn_probs, vsize) == scatter_add(Repeat(0, vsize), srow, attn_probs, 1)

\* Line 79, in units of 1 / (GateUnit * ProbUnit).
mix_prob_of(gen_p, gen_prob, copy_prob) ==
  [k \in 1..Len(gen_prob) |-> gen_p * gen_prob[k] + (GateUnit - gen_p) * copy_prob[k]]

\* decode_step for one example of the batch, given what the layers computed.
decode_step_row(srow, w, vsize) ==
  [gen_prob |-> gen_prob_of(w.gen, vsize),
   copy_prob |-> copy_prob_of(srow, w.attn, vsize),
   mix_prob |-> mix_prob_of(w.gen_p, gen_prob_of(w.gen, vsize), copy_prob_of(srow, w.attn, vsize))]

\* What the layers may compute for one example whose mask is mask.
NetOf(mask) == [attn : attn_probs_of(mask), gen : gen_probs, gen_p : gen_ps]

\* ---- one decode_step call on a batch of one example (specification SpecMix)
DecRows ==
  { [src |-> <<4, 4>>, mask |-> <<1, 1>>],
    [src |-> <<4, 5>>, mask |-> <<1, 1>>],
    [src |-> <<3, 4>>, mask |-> <<1, 1>>],
    [src |-> <<5, 0>>, mask |-> <<1, 0>>] }

MixInit ==
  /\ \E r \in DecRows : d_src = <<r.src>> /\ d_src_mask = <<r.mask>>
  /\ vocab_size \in 6..7
  /\ d_trg_ = <<>>
  /\ test = FALSE
  /\ pc = "decode_step"
  /\ step_i = 0
  /\ prev_idx = <<>>
  /\ pre_output_vectors = <<>>
  /\ net = <<>>

DecodeStepReturn(w) ==
  /\ net' = w
  /\ ret' = [k \in 1..Len(d_src) |-> decode_step_row(d_src[k], w[k], vocab_size)]

decode_step ==
  /\ pc = "decode_step"
  /\ \E w \in [1..Len(d_src) -> UNION {NetOf(d_src_mask[k]) : k \in 1..Len(d_src)}] :
       /\ \A k \in 1..Len(d_src) : w[k] \in NetOf(d_src_mask[k])
       /\ DecodeStepReturn(w)
  /\ op' = "decode_step"
  /\ pc' = "done"
  /\ UNCHANGED <<d_src, d_src_mask, d_trg_, vocab_size, test, step_i, prev_idx, pre_output_vectors, outsideDec>>

\* ------------------------------------------------- EncoderDecoder.forward
\* torch.argmax over the last dimension: the first index of the largest entry.
argmax(q) == CHOOSE k \in 0..(Len(q) - 1) : /\ \A j \in 1..Len(q) : q[j] <= q[k + 1]
                                            /\ \A j \in 1..k : q[j] < q[k + 1]

\* What the layers compute in a step of forward: for each example one of
\* pure generation of <EOS>, pure generation of <UNK>, a pure copy of the
\* first source token, an even mix of generating <EOS> and copying.
FwdNet ==
  { [attn |-> <<2, 0>>, gen |-> <<0, 0, 2, 0>> \o Repeat(0, embed_num - 4), gen_p |-> GateUnit],
    [attn |-> <<2, 0>>, gen |-> <<0, 0, 0, 2>> \o Repeat(0, embed_num - 4), gen_p |-> GateUnit],
    [attn |-> <<2, 0>>, gen |-> <<0, 0, 2, 0>> \o Repeat(0, embed_num - 4), gen_p |-> 0],
    [attn |-> <<2, 0>>, gen |-> <<0, 0, 2, 0>> \o Repeat(0, embed_num - 4), gen_p |-> 1] }

FwdBatches ==
  { [src |-> << <<embed_num, 3>> >>, mask |-> << <<1, 1>> >>, trg_ |-> << Repeat(EOS_IDX, 1) \o Repeat(PAD_IDX, sum_max_len - 1) >>],
    [src |-> << <<3, embed_num>>, <<embed_num, 0>> >>, mask |-> << <<1, 1>>, <<1, 0>> >>,
     trg_ |-> << Repeat(UNK_IDX, sum_max_len - 1) \o <<EOS_IDX>>, Repeat(EOS_IDX, 1) \o Repeat(PAD_IDX, sum_max_len - 1) >>] }

FwdInit ==
  /\ \E b \in FwdBatches : d_src = b.src /\ d_src_mask = b.mask /\ d_trg_ = b.trg_
  /\ vocab_size = embed_num + 1
  /\ test \in BOOLEAN
  /\ pc = "loop"
  /\ step_i = 0
  /\ prev_idx = <<>>
  /\ pre_output_vectors = <<>>
  /\ net = <<>>

\* Line 117, with a stop once every example has produced <EOS> at inference.
loop_until_eos(k, max_len, tst, outs) ==
  /\ k < max_len
  /\ ~(tst /\ \A e \in 1..Len(d_src) : \E t \in 1..Len(outs) : argmax(outs[t][e]) = EOS_IDX)

\* Line 117: for i in range(max_len).
loop_continues(k, max_len, tst, outs) == k < max_len

\* Lines 118-128: the ids whose embeddings are the step's input.
prev_idx_of(k, tst, trg_, outs) ==
  IF k = 0 THEN [e \in 1..Len(d_src) |-> SOS_IDX]
  ELSE IF ~tst THEN [e \in 1..Len(d_src) |-> trg_[e][k]]
  ELSE [e \in 1..Len(d_src) |->
          IF argmax(outs[Len(outs)][e]) >= embed_num THEN UNK_IDX ELSE argmax(outs[Len(outs)][e])]

ForwardStepReturn(w) ==
  /\ net' = w
  /\ pre_output_vectors' = Append(pre_output_vectors,
                                  [e \in 1..Len(d_src) |-> decode_step_row(d_src[e], w[e], vocab_size).mix_prob])

\* One pass of the loop of lines 117-132.
forward_step ==
  /\ pc = "loop"
  /\ loop_continues(step_i, sum_max_len, test, pre_output_vectors)
  /\ prev_idx' = prev_idx_of(step_i, test, d_trg_, pre_output_vectors)
  /\ \E w \in [1..Len(d_src) -> FwdNet] : ForwardStepReturn(w)
  /\ step_i' = step_i + 1
  /\ op' = "forward"
  /\ UNCHANGED <<d_src, d_src_mask, d_trg_, vocab_size, test, pc, ret, outsideDec>>

\* Lines 133-135: the loop is over, the outputs are returned.
forward_return ==
  /\ pc = "loop"
  /\ ~loop_continues(step_i, sum_max_len, test, pre_output_vectors)
  /\ pc' = "done"
  /\ ret' = pre_output_vectors
  /\ op' = "forward"
  /\ UNCHANGED <<d_src, d_src_mask, d_trg_, vocab_size, test, step_i, prev_idx, pre_output_vectors, net, outsideDec>>

\* ------------------------------------------------------ myNLLLoss.forward
NegInf == -1000      \* float('-inf')
MaxLossLen == 2      \* positions of a loss call
LogProbs == {NegInf, -2, -1}
LossIds == 0..1
LossRows == [LossIds -> LogProbs]
LossArgs == UNION {[output : [1..n -> LossRows], target : [1..n -> LossIds]] : n \in 1..MaxLossLen}

LossInit ==
  /\ \E a \in LossArgs : output = a.output /\ target = a.target
  /\ l_pc = "loop"
  /\ l_pos = 1
  /\ rst = 0

\* One pass of the loop of lines 191-197 without the test of line 194.
loss_pass_unchecked(dis, idx, acc) ==
  IF idx = 0 THEN [pc |-> "loop", rst |-> acc]
  ELSE [pc |-> "loop", rst |-> acc - dis[idx]]

\* One pass of the loop of lines 191-197 on the pair (dis, idx).
loss_pass(dis, idx, acc) ==
  IF idx = 0 THEN [pc |-> "loop", rst |-> acc]
  ELSE IF dis[idx] = NegInf THEN [pc |-> "exited", rst |-> acc]
  ELSE [pc |-> "loop", rst |-> acc - dis[idx]]

LossPassReturn(r) ==
  /\ l_pc' = r.pc
  /\ rst' = r.rst

loss_step ==
  /\ l_pc = "loop"
  /\ l_pos <= Min(Len(output), Len(target))
  /\ LossPassReturn(loss_pass(output[l_pos], target[l_pos], rst))
  /\ l_pos' = l_pos + 1
  /\ UNCHANGED <<output, target, outsideLoss>>

\* Line 198.
loss_return ==
  /\ l_pc = "loop"
  /\ l_pos > Min(Len(output), Len(target))
  /\ l_pc' = "returned"
  /\ UNCHANGED <<output, target, l_pos, rst, outsideLoss>>

\* ========================================================== specifications
CallInit ==
  /\ op = "init"
  /\ err = "none"
  /\ batch = NoBatch
  /\ ret = NoRet
  /\ old_word_num = 4

DecIdle ==
  /\ d_src = <<>> /\ d_src_mask = <<>> /\ d_trg_ = <<>> /\ vocab_size = embed_num
  /\ test = FALSE /\ pc = "idle" /\ step_i = 0 /\ prev_idx = <<>>
  /\ pre_output_vectors = <<>> /\ net = <<>>

LossIdle ==
  /\ output = <<>> /\ target = <<>> /\ l_pc = "idle" /\ l_pos = 1 /\ rst = 0

\* The seq2seqCopyAttr Vocab under any order of its calls.
Init ==
  /\ VocabInit(MinCnts)
  /\ MemInit({1})
  /\ CallInit
  /\ DecIdle
  /\ LossIdle

Next == add_sentence \/ add_user \/ add_product \/ trim \/ read_batch

Spec == Init /\ [][Next]_vars

\* The memBasic Vocab under any order of its calls.
MemSpecInit ==
  /\ VocabInit({1})
  /\ MemInit(MinCnts)
  /\ CallInit
  /\ DecIdle
  /\ LossIdle

MemNext == mem_add_sentence \/ mem_trim \/ make_tensors

SpecMem == MemSpecInit /\ [][MemNext]_vars

\* One decode_step call.
MixSpecInit ==
  /\ VocabInit({1})
  /\ MemInit({1})
  /\ CallInit
  /\ MixInit
  /\ LossIdle

MixNext == decode_step

SpecMix == MixSpecInit /\ [][MixNext]_vars

\* One forward call.
FwdSpecInit ==
  /\ VocabInit({1})
  /\ MemInit({1})
  /\ CallInit
  /\ FwdInit
  /\ LossIdle

FwdNext == forward_step \/ forward_return

SpecFwd == FwdSpecInit /\ [][FwdNext]_vars

\* One myNLLLoss.forward call.
LossSpecInit ==
  /\ VocabInit({1})
  /\ MemInit({1})
  /\ CallInit
  /\ DecIdle
  /\ LossInit

LossNext == loss_step \/ loss_return

SpecLoss == LossSpecInit /\ [][LossNext]_vars

\* ================================================================== claims
Returned == op = "read_batch" /\ err = "none"
Size(f) == Cardinality(DOMAIN f)

\* C1 (as claimed): after any read_batch, every id >= fixed_num of a target
\* row occurs in the same example's source row.
C1_CopyReachable ==
  Returned => \A i \in 1..Len(ret.trg) : \A j \in 1..Len(ret.trg[i]) :
                ret.trg[i][j] >= fixed_num => ret.trg[i][j] \in Range(ret.src[i])

\* C1, restricted to vocabularies that still hold the reserved tokens
\* (fixed_num > UNK_IDX): the copy-reachability of the target rows.
C1_CopyReachableReserved == fixed_num > UNK_IDX => C1_CopyReachable

\* C2 (as claimed): the four parallel structures have equal size in every
\* reachable state.
C2_FourEqual ==
  /\ Size(id2word) = Size(word2id)
  /\ Size(word2id) = Size(word2cnt)
  /\ Size(word2cnt) = Len(embed)

\* C2 (amended): id2word and word2id have word_num entries each, word2cnt and
\* embed have equally many and no more than that; all four are equal whenever
\* every token of word2id has a frequency, i.e. no dynamic token is present.
C2_PairsEqual ==
  /\ Size(id2word) = Size(word2id)
  /\ Size(word2id) = word_num
  /\ Size(word2cnt) = Len(embed)
  /\ Len(embed) <= word_num
  /\ (DOMAIN word2id \subseteq DOMAIN word2cnt) => C2_FourEqual

\* C2 witness: read_batch has returned with dynamic tokens in the vocabulary.
C2_Witness == Returned /\ word_num > fixed_num /\ Size(word2id) > Size(word2cnt)

\* The fixed part of a vocabulary value: ids below fixed_num only.
FixedPart(s) ==
  [s EXCEPT !.word2id = [w \in {x \in DOMAIN s.word2id : s.word2id[x] < s.fixed_num} |-> s.word2id[w]],
            !.id2word = [i \in {x \in DOMAIN s.id2word : x < s.fixed_num} |-> s.id2word[i]],
            !.word_num = s.fixed_num]

\* The tokens of toks that are not in seen, each once, in first-occurrence order.
RECURSIVE FirstNew(_, _)
FirstNew(toks, seen) ==
  IF toks = <<>> THEN <<>>
  ELSE IF Head(toks) \in seen THEN FirstNew(Tail(toks), seen)
  ELSE <<Head(toks)>> \o FirstNew(Tail(toks), seen \cup {Head(toks)})

Isolated(pre, b, post, out, u2id, p2id) ==
  LET fixed == FixedPart(pre)
      new == FirstNew(Flatten(out.src_text), DOMAIN fixed.word2id)
  IN  /\ [self |-> post, ret |-> out] = read_batch_result(fixed, b, u2id, p2id)
      /\ post.fixed_num = pre.fixed_num
      /\ post.word_num = pre.fixed_num + Len(new)
      /\ DOMAIN post.word2id = DOMAIN fixed.word2id \cup Range(new)
      /\ DOMAIN post.id2word = 0..(post.word_num - 1)
      /\ \A k \in 1..Len(new) : /\ post.word2id[new[k]] = pre.fixed_num + k - 1
                                /\ post.id2word[pre.fixed_num + k - 1] = new[k]

\* C3: a read_batch call leaves the state, and returns the arrays, that the
\* same call on the vocabulary's fixed part alone would: the dynamic part is
\* the batch's new source tokens numbered from fixed_num in first-occurrence
\* order, and nothing of an earlier batch remains.
C3_BatchIsolation ==
  [][(op' = "read_batch" /\ err' = "none")
       => Isolated(Self, batch', Self', ret', user2id, product2id)]_vars

\* C3 witness: read_batch returned on a vocabulary that held two dynamic tokens
\* of an earlier batch, and holds one now.
C3_Witness == Returned /\ old_word_num = fixed_num + 2 /\ word_num = fixed_num + 1

\* C10 (as claimed): every safe id is below fixed_num; it is the extended id
\* when that is below fixed_num and UNK otherwise.
SafeRow(safe, ext) ==
  \A j \in 1..Len(ext) : /\ safe[j] < fixed_num
                         /\ safe[j] = IF ext[j] < fixed_num THEN ext[j] ELSE UNK_IDX
C10_SafeIds ==
  Returned => \A i \in 1..Len(ret.src) : /\ SafeRow(ret.src_embed[i], ret.src[i])
                                         /\ SafeRow(ret.trg_embed[i], ret.trg[i])

\* C10, restricted to vocabularies that still hold the reserved tokens.
C10_SafeIdsReserved == fixed_num > UNK_IDX => C10_SafeIds

\* C4 (as claimed): a trim call right after a successful trim call completes
\* without error and changes nothing, for the seq2seqCopyAttr Vocab (under
\* Spec) and for the memBasic Vocab (under SpecMem).
C4_TrimIdempotent ==
  [][(op = "trim" /\ err = "none" /\ op' = "trim")
       => (err' = "none" /\ Self' = Self /\ MemSelf' = MemSelf)]_vars

\* The memory list of a batch example and the rank of its entry q in the
\* descending order of the scores (earlier entries first among equal scores).
MemList(ex) == ex.product_review \o ex.user_review
MemRank(L, q) ==
  1 + Cardinality({j \in 1..Len(L) : piece_score(L[j]) > piece_score(L[q])
                                       \/ (piece_score(L[j]) = piece_score(L[q]) /\ j < q)})
Unowned(ex, p) ==
  /\ train_data[piece_index(p) + 1].userID # ex.userID
  /\ train_data[piece_index(p) + 1].productID # ex.productID
MemRowAt(r) == [gold |-> ret.mem_gold[r], up |-> ret.mem_up[r], review |-> ret.mem_review[r], sum |-> ret.mem_sum[r]]
MemReturned == op = "make_tensors" /\ err = "none"

\* Rows (k-1)*mem_size+1 .. k*mem_size hold example ex's memory: its
\* min(len, mem_size) best entries, best first, then placeholders.
MemSlotsOf(k, ex) ==
  LET L == MemList(ex)
      m == Min(Len(L), mem_size)
      base == (k - 1) * mem_size
  IN  /\ \E sel \in [1..m -> 1..Len(L)] :
           /\ \A i, j \in 1..m : sel[i] = sel[j] => i = j
           /\ \A j \in 1..m : MemRowAt(base + j) = mem_row(MemSelf, L[sel[j]], ex)
           /\ \A j \in 1..(m - 1) : piece_score(L[sel[j]]) >= piece_score(L[sel[j + 1]])
           /\ \A q \in (1..Len(L)) \ Range(sel) : \A j \in 1..m : piece_score(L[q]) <= piece_score(L[sel[j]])
      /\ \A j \in (m + 1)..mem_size :
           /\ ret.mem_up[base + j] = <<0, 0>>
           /\ ret.mem_gold[base + j] = 0
           /\ Len(ret.mem_review[base + j]) = review_max_len
           /\ Len(ret.mem_sum[base + j]) = sum_max_len
           /\ Range(ret.mem_review[base + j]) \cup Range(ret.mem_sum[base + j]) \subseteq {PAD_IDX}

\* C6: a returning make_tensors gives every example exactly mem_size memory
\* rows, grouped in the sorted example order: the top-scored entries in
\* descending order when the list is long, padded with placeholders when short.
C6_MemoryCapacity ==
  MemReturned =>
    /\ Len(ret.mem_up) = Len(batch) * mem_size
    /\ Len(ret.mem_review) = Len(batch) * mem_size
    /\ Len(ret.mem_sum) = Len(batch) * mem_size
    /\ Len(ret.mem_gold) = Len(batch) * mem_size
    /\ \A k \in 1..Len(batch) : MemSlotsOf(k, batch[sort_idx(batch)[k]])

\* C6 witness: a batch with one memory list longer and one shorter than mem_size.
C6_Witness ==
  /\ MemReturned
  /\ \E k \in 1..Len(batch) : Len(MemList(batch[k])) > mem_size
  /\ \E k \in 1..Len(batch) : Len(MemList(batch[k])) \in 1..(mem_size - 1)

\* C7 (as claimed): an unowned entry anywhere in an example's memory list
\* makes make_tensors fail with an assertion error and return nothing.
C7_OwnershipAll ==
  (op = "make_tensors" /\ \E k \in 1..Len(batch) : \E q \in 1..Len(MemList(batch[k])) :
                             Unowned(batch[k], MemList(batch[k])[q]))
    => (err = "AssertionError" /\ ret = NoRet)

\* C7 (amended): make_tensors fails with an assertion error and returns
\* nothing exactly when an unowned entry is among the mem_size best-ranked
\* entries of some example's memory list; lower-ranked entries are not checked.
C7_OwnershipKept ==
  op = "make_tensors" =>
    IF \E k \in 1..Len(batch) : \E q \in 1..Len(MemList(batch[k])) :
         /\ MemRank(MemList(batch[k]), q) <= mem_size
         /\ Unowned(batch[k], MemList(batch[k])[q])
    THEN err = "AssertionError" /\ ret = NoRet
    ELSE err = "none" /\ ret # NoRet

\* C7 witness: make_tensors failed on a batch of two examples.
C7_Witness == op = "make_tensors" /\ err = "AssertionError" /\ Len(batch) = 2
\* ------------------------------------------------------------------- C5
\* The attention mass of the source positions of example e that hold id.
AttnMass(e, id) ==
  SumSeq([k \in 1..Len(d_src[e]) |-> IF d_src[e][k] = id THEN net[e].attn[k] ELSE 0])

Occurs(e, id) == \E k \in 1..Len(d_src[e]) : d_src[e][k] = id

MixLaw(e, id) ==
  /\ id >= embed_num => ret[e].gen_prob[id + 1] = 0
  /\ id < embed_num => ret[e].gen_prob[id + 1] = net[e].gen[id + 1]
  /\ ~Occurs(e, id) => ret[e].copy_prob[id + 1] = 0
  /\ ret[e].copy_prob[id + 1] = AttnMass(e, id)
  /\ ret[e].mix_prob[id + 1]
       = net[e].gen_p * ret[e].gen_prob[id + 1] + (GateUnit - net[e].gen_p) * ret[e].copy_prob[id + 1]

\* C5: after decode_step, for every example and every id of the extended
\* vocabulary, the generation distribution is 0 at every id >= embed_num, the
\* copy distribution is 0 at every id absent from the example's source row and
\* otherwise the sum of the attention weights of the positions holding the id,
\* and mix_prob = gen_p * gen_prob + (1 - gen_p) * copy_prob.
C5_MixingLaw ==
  pc = "done" /\ op = "decode_step" =>
    /\ Len(ret) = Len(d_src)
    /\ \A e \in 1..Len(d_src) :
         /\ Len(ret[e].mix_prob) = vocab_size
         /\ \A id \in 0..(vocab_size - 1) : MixLaw(e, id)

\* C5 witness: a source row holding the same out-of-vocabulary id twice, both
\* positions attended, the gate strictly between 0 and 1.
C5_Witness ==
  /\ pc = "done" /\ op = "decode_step"
  /\ d_src[1][1] = d_src[1][2] /\ d_src[1][1] >= embed_num
  /\ net[1].attn[1] > 0 /\ net[1].attn[2] > 0
  /\ net[1].gen_p > 0 /\ net[1].gen_p < GateUnit
  /\ ret[1].copy_prob[d_src[1][1] + 1] = ProbUnit
  /\ ret[1].mix_prob[d_src[1][1] + 1] = (GateUnit - net[1].gen_p) * ProbUnit

\* ------------------------------------------------------------------- C8
\* Every example has produced <EOS> within the first t outputs.
AllEos(outs, t) ==
  \A e \in 1..Len(d_src) : \E k \in 1..t : argmax(outs[k][e]) = EOS_IDX

\* The number of steps after which the loop stops if it stops as soon as
\* every example has produced <EOS>, and after max_len steps at the latest.
StopAt(outs, max_len) ==
  CHOOSE t \in 0..max_len :
    /\ t = max_len \/ (t <= Len(outs) /\ AllEos(outs, t))
    /\ \A u \in 0..(t - 1) : ~(u <= Len(outs) /\ AllEos(outs, u))

\* C8 as stated: forward makes at most sum_max_len steps; at inference it
\* stops as soon as every example of the batch has produced <EOS>; in
\* training it makes exactly sum_max_len steps.
C8_Termination ==
  /\ Len(pre_output_vectors) <= sum_max_len
  /\ pc = "done" /\ ~test => Len(pre_output_vectors) = sum_max_len
  /\ pc = "done" /\ test => Len(pre_output_vectors) = StopAt(pre_output_vectors, sum_max_len)

\* C8 as amended: forward makes exactly sum_max_len steps, at inference as in
\* training, whatever the examples have produced.
C8_FixedSteps ==
  /\ Len(pre_output_vectors) = step_i
  /\ step_i <= sum_max_len
  /\ pc = "done" => Len(pre_output_vectors) = sum_max_len /\ ret = pre_output_vectors

\* C8 witness: an inference call in which every example produced <EOS> at the
\* first step and the loop still ran to sum_max_len steps.
C8_Witness ==
  /\ pc = "done" /\ test
  /\ Len(d_src) = 2
  /\ AllEos(pre_output_vectors, 1)
  /\ Len(pre_output_vectors) = sum_max_len

\* ------------------------------------------------------------------- C9
Gold(k) == output[k][target[k]]

\* A position before position n whose target is not <PAD> and whose gold
\* log-probability is minus infinity.
Unreachable(n) == \E k \in 1..(n - 1) : target[k] # PAD_IDX /\ Gold(k) = NegInf

RECURSIVE NLL(_)
NLL(n) ==
  IF n = 0 THEN 0
  ELSE NLL(n - 1) + (IF target[n] = PAD_IDX THEN 0 ELSE 0 - Gold(n))

\* C9: a position whose target is not <PAD> and whose gold log-probability is
\* minus infinity stops the run, no loss is returned; <PAD> positions are
\* skipped; otherwise the result is the sum of minus the gold
\* log-probabilities of the positions that are not <PAD>.
C9_LossFailure ==
  /\ l_pc = "returned" => ~Unreachable(Len(target) + 1) /\ rst = NLL(Len(target))
  /\ l_pc = "exited" => target[l_pos - 1] # PAD_IDX /\ Gold(l_pos - 1) = NegInf
                        /\ ~Unreachable(l_pos - 1) /\ rst = NLL(l_pos - 2)
  /\ l_pc = "loop" => ~Unreachable(l_pos) /\ rst = NLL(l_pos - 1)

\* C9 witness: the run stops at the second position, after a first position
\* that counted in the loss.
C9_Witness ==
  /\ l_pc = "exited" /\ l_pos = 3
  /\ target[1] # PAD_IDX /\ Gold(1) = -2 /\ rst = 2
  /\ target[2] # PAD_IDX /\ Gold(2) = NegInf


\* ------------------------------------------------------------------ C11
\* The token <-> id mapping of the ids below n is the same in s and t.
SameBelow(s, t, n) ==
  /\ \A i \in 0..(n - 1) : /\ (i \in DOMAIN s.id2word) = (i \in DOMAIN t.id2word)
                           /\ i \in DOMAIN s.id2word => t.id2word[i] = s.id2word[i]
  /\ \A w \in DOMAIN s.word2id \cup DOMAIN t.word2id :
       (w \in DOMAIN s.word2id /\ s.word2id[w] < n) \/ (w \in DOMAIN t.word2id /\ t.word2id[w] < n)
         => /\ w \in DOMAIN s.word2id /\ w \in DOMAIN t.word2id
            /\ t.word2id[w] = s.word2id[w]

\* C11: every read_batch call leaves fixed_num, the token <-> id mapping of
\* every id below fixed_num, word2cnt, embed and the user and product
\* registries unchanged; only ids >= fixed_num and word_num may change.
C11_ReadBatchFrame ==
  [][op' = "read_batch"
       => /\ fixed_num' = fixed_num
          /\ SameBelow(Self, Self', fixed_num)
          /\ word2cnt' = word2cnt
          /\ embed' = embed
          /\ attrVars' = attrVars]_vars

\* C11 witness: read_batch returned on a trimmed vocabulary with a corpus word
\* and a registered user, replacing the dynamic token of an earlier batch by
\* one of its own.
C11_Witness ==
  /\ Returned
  /\ fixed_num = 5 /\ old_word_num = 6 /\ word_num = 6
  /\ Size(word2cnt) = 5 /\ Len(embed) = 5
  /\ user_num > 1


\* ------------------------------------------------------------------ C12
\* Token w has id i, in both directions of the mapping.
HasId(w, i) ==
  /\ w \in DOMAIN word2id /\ word2id[w] = i
  /\ i \in DOMAIN id2word /\ id2word[i] = w

\* C12 (as claimed): after trim, whatever the corpus and the threshold
\* word_min_cnt, <PAD>, <SOS>, <EOS>, <UNK> are in the vocabulary with ids
\* 0, 1, 2, 3.
C12_ReservedSurvive ==
  op = "trim" /\ err = "none" =>
    /\ HasId(PAD_TOKEN, PAD_IDX)
    /\ HasId(SOS_TOKEN, SOS_IDX)
    /\ HasId(EOS_TOKEN, EOS_IDX)
    /\ HasId(UNK_TOKEN, UNK_IDX)


\* ------------------------------------------------------------------ C13
\* The registry id of name, 0 when the registry does not hold it.
RegId(reg, name) == IF name \in DOMAIN reg THEN reg[name] ELSE 0

\* Row k of the returned arrays is made from the input example e.
RowOf(k, e) ==
  LET summary == Take(e.summary \o <<EOS_TOKEN>>, sum_max_len)
  IN  /\ ret.src_text[k] = e.reviewText
      /\ ret.trg_text[k] = e.summary
      /\ ret.src_lens[k] = Len(e.reviewText)
      /\ ret.trg_lens[k] = Len(summary)
      /\ \A j \in 1..Len(ret.src[k]) :
           /\ ret.src_mask[k][j] = (IF j <= Len(e.reviewText) THEN 1 ELSE 0)
           /\ ret.src[k][j] = (IF j <= Len(e.reviewText) THEN word_id(Self, e.reviewText[j]) ELSE PAD_IDX)
      /\ \A j \in 1..Len(ret.trg[k]) :
           ret.trg[k][j] \in (IF j <= Len(summary) THEN {word_id(Self, summary[j]), UNK_IDX} ELSE {PAD_IDX})
      /\ ret.src_user[k] = RegId(user2id, e.userID)
      /\ ret.src_product[k] = RegId(product2id, e.productID)

\* The orders in which the examples of a batch of n examples can be laid out.
Orders(n) == {idx \in [1..n -> 1..n] : \A i, j \in 1..n : idx[i] = idx[j] => i = j}

\* C13 (as claimed): the rows read_batch returns are in descending order of
\* source-token count, and every row's src, trg, src_mask, src_lens, trg_lens,
\* src_user and src_product entries belong to one and the same input example.
C13_RowAlignment ==
  Returned =>
    /\ \A k \in 1..(Len(batch) - 1) : ret.src_lens[k] >= ret.src_lens[k + 1]
    /\ \E idx \in Orders(Len(batch)) : \A k \in 1..Len(batch) : RowOf(k, batch[idx[k]])


====
